---- MODULE Spec2Model ----
(***************************************************************************)
(* A model of the zk-consensus node: the ConsensusEngine loop              *)
(* (src/src/consensus/mod.rs), the in-memory StorageManager                *)
(* (src/src/storage/mod.rs) and the mock ZKProofGenerator                  *)
(* (src/src/zk_proof/mod.rs).                                              *)
(*                                                                         *)
(* Conventions.                                                            *)
(*  - A SHA-256 digest is the term <<"sha256", parts>>, parts being the    *)
(*    tuple of the byte strings fed to the hasher: distinct inputs give    *)
(*    distinct digests (no collisions).                                    *)
(*  - A byte vector whose content is never inspected is a sequence of      *)
(*    chunks [src, n]: n bytes derived from src.  Its length is the sum of *)
(*    the n.                                                               *)
(*  - Option<T> is a set with at most one element.                         *)
(*  - A gateway call returns a Result.  The in-memory StorageManager and    *)
(*    the mock ZKProofGenerator return Ok always; the actions named         *)
(*    ...GatewayError take the Err the engine's `?` is written for.         *)
(*  - Time is in whole seconds; performance scores are in hundredths.      *)
(*  - BlockVote.timestamp and BlockVote.signature are never read by the    *)
(*    engine and are left out of the vote record.                          *)
(***************************************************************************)
EXTENDS Integers, Sequences, FiniteSets, TLC

VARIABLES
    state,                  \* ConsensusEngine.state : RwLock<ConsensusState>
    rwlock,                 \* guards of ConsensusEngine.state held/awaited by the loop task
    blocks,                 \* StorageManager.blocks : HashMap<u64, Block>
    votes,                  \* StorageManager.votes : HashMap<String, BlockVote>
    pending_transactions,   \* StorageManager.pending_transactions
    broadcast,              \* what broadcast_block / broadcast_vote were called with
    now,                    \* Utc::now(), seconds
    last,                   \* the event consensus_loop handled last
    returned                \* the error consensus_loop returned with, if it has

vars ==
    <<state, rwlock, blocks, votes, pending_transactions, broadcast, now, last,
      returned>>

----------------------------------------------------------------------------
(* Bounds of the exploration *)

\* caps on the entries of the vote store
MaxVotes == 3
FewVotes == 1
\* caps on the messages this node broadcasts
MaxBroadcast == 2
MaxResync == 3
\* how many fields of a delivered block may be wrong at once
MaxDefects == 1

(* Program constants *)

min_validators == 3
block_time == 12
ScoreWindow == 300
NumTestTxs == 5
MinProofSize == 64
HashLen == 32
U64Len == 8
PaddingLen == 28
difficulty == 1000

(* Identities *)

node_id == "n1"
NodeIds == {"n1", "n2", "n3"}
VoteTypes == {"Approve", "Reject", "Abstain"}


----------------------------------------------------------------------------
(* types/mod.rs, the commitment layer *)

Sha256(parts) == <<"sha256", parts>>

\* [0; 32]
ZeroHash == <<"zero">>
\* some 32 bytes that are the digest of nothing the node has seen
OtherHash == <<"other">>

\* bincode::serialize(&header): every field, in declaration order
SerializeHeader(h) ==
    <<h.block_number, h.parent_hash, h.timestamp, h.merkle_root, h.validator,
      h.difficulty, h.nonce>>

\* Block::hash
hash(block) == Sha256(<<SerializeHeader(block.header), block.transactions>>)

\* as MerkleLevel, with the last node of an odd level carried up unpaired
RECURSIVE MerkleLevel_CarryOdd(_)
MerkleLevel_CarryOdd(hashes) ==
    IF Len(hashes) = 0 THEN <<>>
    ELSE IF Len(hashes) = 1 THEN <<hashes[1]>>
    ELSE <<Sha256(<<hashes[1], hashes[2]>>)>>
            \o MerkleLevel_CarryOdd(SubSeq(hashes, 3, Len(hashes)))

\* one pass of `for chunk in hashes.chunks(2)`
RECURSIVE MerkleLevel(_)
MerkleLevel(hashes) ==
    IF Len(hashes) = 0 THEN <<>>
    ELSE IF Len(hashes) = 1 THEN <<Sha256(<<hashes[1], hashes[1]>>)>>
    ELSE <<Sha256(<<hashes[1], hashes[2]>>)>> \o MerkleLevel(SubSeq(hashes, 3, Len(hashes)))

\* `while hashes.len() > 1`
RECURSIVE MerkleReduce(_)
MerkleReduce(hashes) ==
    IF Len(hashes) > 1 THEN MerkleReduce(MerkleLevel(hashes)) ELSE hashes[1]

\* as calculate_merkle_root, with the engine's height mixed into the root
calculate_merkle_root_Salted(transactions) ==
    IF Len(transactions) = 0 THEN ZeroHash
    ELSE Sha256(<<state.current_block,
                  MerkleReduce([i \in 1..Len(transactions) |->
                                    Sha256(<<transactions[i]>>)])>>)

calculate_merkle_root(transactions) ==
    IF Len(transactions) = 0 THEN ZeroHash
    ELSE MerkleReduce([i \in 1..Len(transactions) |-> Sha256(<<transactions[i]>>)])

----------------------------------------------------------------------------
(* zk_proof/mod.rs *)

RECURSIVE ByteLen(_)
ByteLen(bytes) ==
    IF Len(bytes) = 0 THEN 0 ELSE bytes[1].n + ByteLen(Tail(bytes))

Chunk(part, of, n) == [part |-> part, of |-> of, n |-> n]

hash_block_content(block) ==
    Sha256(<<block.header.block_number, block.header.parent_hash,
             block.header.merkle_root, block.header.timestamp,
             block.header.validator>>)

\* as generate_deterministic_proof, without the padding
generate_deterministic_proof_NoPadding(block_hash) ==
    <<Chunk("hash", block_hash, HashLen),
      Chunk("time_factor", block_hash, U64Len)>>

\* the 32 bytes of the hash, 28 one-byte paddings, one u64
generate_deterministic_proof(block_hash) ==
    <<Chunk("hash", block_hash, HashLen),
      Chunk("padding", block_hash, PaddingLen),
      Chunk("time_factor", block_hash, U64Len)>>

generate_verification_key(block_hash) ==
    <<Chunk("hash", block_hash, HashLen), Chunk("hash", block_hash, HashLen)>>

extract_public_inputs(block) ==
    <<Chunk("block_number", block.header.block_number, U64Len),
      Chunk("merkle_root", block.header.merkle_root, HashLen),
      Chunk("timestamp", block.header.timestamp, U64Len)>>

generate_proof(block) ==
    [proof_data       |-> generate_deterministic_proof(hash_block_content(block)),
     public_inputs    |-> extract_public_inputs(block),
     verification_key |-> generate_verification_key(hash_block_content(block)),
     proof_type       |-> "Groth16"]

\* as verify_proof, without the minimum proof size
verify_proof_NoMinSize(zk_proof) ==
    /\ ByteLen(zk_proof.proof_data) # 0
    /\ ByteLen(zk_proof.public_inputs) # 0

verify_proof(zk_proof) ==
    /\ ByteLen(zk_proof.proof_data) # 0
    /\ ByteLen(zk_proof.public_inputs) # 0
    /\ ByteLen(zk_proof.proof_data) >= MinProofSize

----------------------------------------------------------------------------
(* storage/mod.rs *)

EmptyMap == [x \in {} |-> x]

\* as store_block, keeping the entry a block number already has
store_block_KeepFirst(bs, block) ==
    [h \in DOMAIN bs \cup {block.header.block_number} |->
        IF h \in DOMAIN bs THEN bs[h] ELSE block]

store_block(bs, block) ==
    [h \in DOMAIN bs \cup {block.header.block_number} |->
        IF h = block.header.block_number THEN block ELSE bs[h]]

get_block(bs, block_number) ==
    IF block_number \in DOMAIN bs THEN {bs[block_number]} ELSE {}

get_block_by_hash(bs, block_hash) ==
    IF \E h \in DOMAIN bs : hash(bs[h]) = block_hash
    THEN {CHOOSE b \in {bs[h] : h \in DOMAIN bs} : hash(b) = block_hash}
    ELSE {}

get_latest_block(bs) ==
    IF DOMAIN bs = {} THEN {}
    ELSE {bs[CHOOSE h \in DOMAIN bs : \A g \in DOMAIN bs : g <= h]}

\* hex::encode: two digits a byte, so 64 characters for every hash and node id
hex_encode(bytes) == <<"hex", bytes>>

\* as vote_key, with the verdict appended to the key
vote_key_PerVerdict(vote) ==
    <<hex_encode(vote.block_hash), ":", hex_encode(vote.validator), vote.vote>>

\* format!("{}:{}", hex::encode(block_hash), hex::encode(validator))
vote_key(vote) == <<hex_encode(vote.block_hash), ":", hex_encode(vote.validator)>>

\* key.starts_with(prefix), the prefix being the 64 characters of one hash
starts_with(key, prefix) == key[1] = prefix

store_vote(vs, vote) ==
    [k \in DOMAIN vs \cup {vote_key(vote)} |->
        IF k = vote_key(vote) THEN vote ELSE vs[k]]

get_votes_for_block(vs, block_hash) ==
    {vs[k] : k \in {j \in DOMAIN vs : starts_with(j, hex_encode(block_hash))}}

get_pending_transactions(pending) == pending

----------------------------------------------------------------------------
(* main.rs: the transactions stored before the engine is built *)

TestTransaction(i) ==
    [id |-> i, from |-> i + 1, to |-> i + 2, amount |-> (i + 1) * 100]

TestTransactions == [k \in 1..NumTestTxs |-> TestTransaction(k - 1)]

----------------------------------------------------------------------------
(* consensus/mod.rs *)

\* tokio RwLock: write() is granted once no read guard is alive
write_ready(readers) == readers = 0

\* as verify_block_structure, without the check of the block number
verify_block_structure_AnyHeight(st, bs, block) ==
    /\ \A last_block \in get_latest_block(bs) :
            block.header.parent_hash = hash(last_block)
    /\ block.header.merkle_root = calculate_merkle_root(block.transactions)

\* as verify_block_structure, with the header's merkle_root taken on trust
verify_block_structure_TrustRoot(st, bs, block) ==
    /\ block.header.block_number = st.current_block + 1
    /\ \A last_block \in get_latest_block(bs) :
            block.header.parent_hash = hash(last_block)

verify_block_structure(st, bs, block) ==
    /\ block.header.block_number = st.current_block + 1
    /\ \A last_block \in get_latest_block(bs) :
            block.header.parent_hash = hash(last_block)
    /\ block.header.merkle_root = calculate_merkle_root(block.transactions)

verify_vote_signature(vote) == TRUE

\* as check_block_finality, with the read guard released before the write
check_block_finality_GuardDropped(st, lock, vs, block_hash) ==
    IF Cardinality({v \in get_votes_for_block(vs, block_hash) : v.vote = "Approve"})
            >= min_validators
    THEN [state |-> [st EXCEPT !.current_block = @ + 1], rwlock |-> lock]
    ELSE [state |-> st, rwlock |-> lock]

\* as check_block_finality, with the height set to the number of quorum votes
\* instead of incremented (the guard released before the write)
check_block_finality_CountAsHeight(st, lock, vs, block_hash) ==
    LET approve_votes == Cardinality({v \in get_votes_for_block(vs, block_hash) :
                                         v.vote = "Approve"})
    IN  IF approve_votes >= min_validators
        THEN [state |-> [st EXCEPT !.current_block = approve_votes - min_validators],
              rwlock |-> lock]
        ELSE [state |-> st, rwlock |-> lock]

\* The read guard of line 315 lives to the end of the function, so it is still
\* held when line 325 awaits the write guard.  The result is the consensus
\* state and the lock as the call leaves them.
check_block_finality(st, lock, vs, block_hash) ==
    LET readers       == lock.readers + 1
        approve_votes == Cardinality({v \in get_votes_for_block(vs, block_hash) :
                                         v.vote = "Approve"})
    IN  IF approve_votes >= min_validators
        THEN IF write_ready(readers)
             THEN [state  |-> [st EXCEPT !.current_block = @ + 1],
                   rwlock |-> lock]
             ELSE [state  |-> st,
                   rwlock |-> [readers |-> readers, writer_waiting |-> TRUE]]
        ELSE [state |-> st, rwlock |-> lock]

\* as should_propose_block, waiting for more than block_time
should_propose_block_StrictWait(st, bs, t) ==
    /\ node_id \in DOMAIN st.validators
    /\ \A last_block \in get_latest_block(bs) :
            ~ (t - last_block.header.timestamp <= block_time)

should_propose_block(st, bs, t) ==
    /\ node_id \in DOMAIN st.validators
    /\ \A last_block \in get_latest_block(bs) :
            ~ (t - last_block.header.timestamp < block_time)

EmptyProof ==
    [proof_data |-> <<>>, public_inputs |-> <<>>, verification_key |-> <<>>,
     proof_type |-> "Groth16"]

\* the block propose_new_block builds at time t
proposed_block(st, bs, pending, t) ==
    LET latest == get_latest_block(bs)
        header == [block_number |-> st.current_block + 1,
                   parent_hash  |-> IF latest = {} THEN ZeroHash
                                    ELSE hash(CHOOSE b \in latest : TRUE),
                   timestamp    |-> t,
                   merkle_root  |-> calculate_merkle_root(get_pending_transactions(pending)),
                   validator    |-> node_id,
                   difficulty   |-> difficulty,
                   nonce        |-> 0]
        block  == [header |-> header,
                   transactions |-> get_pending_transactions(pending),
                   zk_proof |-> EmptyProof]
    IN  [block EXCEPT !.zk_proof = generate_proof(block)]

\* as updated_score, with a validator exactly five minutes idle still rewarded
updated_score_LateWindow(validator, t) ==
    IF t - validator.last_block_time <= ScoreWindow
    THEN IF validator.performance_score + 10 > 100 THEN 100
         ELSE validator.performance_score + 10
    ELSE IF validator.performance_score - 5 < 0 THEN 0
         ELSE validator.performance_score - 5

\* one validator's score after a tick at time t
updated_score(validator, t) ==
    IF t - validator.last_block_time < ScoreWindow
    THEN IF validator.performance_score + 10 > 100 THEN 100
         ELSE validator.performance_score + 10
    ELSE IF validator.performance_score - 5 < 0 THEN 0
         ELSE validator.performance_score - 5

update_consensus_state(st, t) ==
    [st EXCEPT !.validators =
        [n \in DOMAIN st.validators |->
            [st.validators[n] EXCEPT !.performance_score =
                updated_score(st.validators[n], t)]]]

self_vote(block) ==
    [block_hash |-> hash(block), validator |-> node_id, vote |-> "Approve"]

\* consensus_loop is at select!: not parked inside a handler, and not returned
LoopReady == ~ rwlock.writer_waiting /\ returned = {}

----------------------------------------------------------------------------
(* What the message bus may deliver *)

CorruptProofs(block) ==
    {EmptyProof,
     [generate_proof(block) EXCEPT !.proof_data = <<Chunk("junk", ZeroHash, MinProofSize - 1)>>],
     [generate_proof(block) EXCEPT !.public_inputs = <<>>]}

DefectKinds == {"height", "parent", "root", "proof"}

\* the parent hash propose_new_block would give a block built on the store
expected_parent(bs) ==
    IF get_latest_block(bs) = {} THEN ZeroHash
    ELSE hash(CHOOSE b \in get_latest_block(bs) : TRUE)

\* The blocks carrying txs in which exactly the fields named in wrong differ
\* from those of a block built on the latest stored block at time now.
AlteredBlocks(txs, wrong) ==
    LET numbers == IF "height" \in wrong
                   THEN {state.current_block, state.current_block + 2}
                   ELSE {state.current_block + 1}
        parents == IF "parent" \in wrong
                   THEN {ZeroHash, OtherHash} \ {expected_parent(blocks)}
                   ELSE {expected_parent(blocks)}
        roots   == IF "root" \in wrong
                   THEN {ZeroHash, calculate_merkle_root(pending_transactions)}
                            \ {calculate_merkle_root(txs)}
                   ELSE {calculate_merkle_root(txs)}
        bodies  == {[header |-> [block_number |-> n, parent_hash |-> p,
                                 timestamp |-> now, merkle_root |-> r,
                                 validator |-> "n2", difficulty |-> difficulty,
                                 nonce |-> 0],
                     transactions |-> txs, zk_proof |-> EmptyProof] :
                        n \in numbers, p \in parents, r \in roots}
    IN  UNION {{[b EXCEPT !.zk_proof = pr] :
                    pr \in IF "proof" \in wrong THEN CorruptProofs(b)
                           ELSE {generate_proof(b)}} : b \in bodies}

NewBlockInputs(maxDefects) ==
    UNION {AlteredBlocks(txs, wrong) :
                txs \in {<<>>, pending_transactions},
                wrong \in {w \in SUBSET DefectKinds : Cardinality(w) <= maxDefects}}

\* the transaction lists a delivered block may carry: the first n test
\* transactions, for every n from none to all
TxSeqs == {SubSeq(TestTransactions, 1, n) : n \in 0..NumTestTxs}

\* blocks over every list of TxSeqs, their merkle_root right or wrong
MerkleInputs ==
    UNION {AlteredBlocks(txs, wrong) : txs \in TxSeqs, wrong \in {{}, {"root"}}}

BlockVoteInputs(voters, verdicts) ==
    {[block_hash |-> h, validator |-> v, vote |-> t] :
        h \in {OtherHash} \cup {hash(b) : b \in get_latest_block(blocks)},
        v \in voters, t \in verdicts}

\* votes of every kind, for two hashes no stored block has
StrayVoteInputs ==
    {[block_hash |-> h, validator |-> v, vote |-> t] :
        h \in {ZeroHash, OtherHash}, v \in NodeIds, t \in VoteTypes}

ValidatorInfo(active, score) ==
    [stake |-> 100, is_active |-> active, last_block_time |-> 0,
     performance_score |-> score]

ConsensusStateInputs(heights, validatorMaps) ==
    {[current_block |-> h, validators |-> v,
      total_stake |-> 100 * Cardinality(DOMAIN v), epoch |-> 1] :
        h \in heights, v \in validatorMaps}

\* the heights a state-sync snapshot carries
SyncHeights == {0, 1}

SelfValidator(active) == [n \in {node_id} |-> ValidatorInfo(active, 50)]

\* the instants a tick may run at: around one and two block times
ProposeInstants ==
    {1, block_time - 1, block_time, block_time + 1, 2 * block_time,
     2 * block_time + 1}

\* the performance scores a snapshot may carry, in hundredths: a ConsensusState
\* message is any value of the type, so also scores outside [0, 1]
ScoreInputs == {-20, 0, 3, 50, 97, 100, 150}

\* validator sets of one score, with and without this node
ScoredValidators ==
    {[n \in ns |-> ValidatorInfo(TRUE, score)] :
        ns \in {{node_id}, {"n2"}, {node_id, "n2"}}, score \in ScoreInputs}

\* the instants a tick may run at: around five minutes after last_block_time
ScoreInstants == {ScoreWindow - 1, ScoreWindow, ScoreWindow + 1, ScoreWindow + 2}

ProofRequestInputs ==
    {[block_number |-> n, request_id |-> OtherHash, requester |-> "n2"] : n \in 1..2}

ProofResponseInputs ==
    {[request_id |-> OtherHash, proof |-> pr, responder |-> "n2"] :
        pr \in {EmptyProof} \cup {generate_proof(b) : b \in get_latest_block(blocks)}}

----------------------------------------------------------------------------
(* The handlers *)

handle_new_block(block) ==
    /\ IF ~ verify_proof(block.zk_proof)
       THEN UNCHANGED <<blocks, broadcast>>
       ELSE IF ~ verify_block_structure(state, blocks, block)
       THEN UNCHANGED <<blocks, broadcast>>
       ELSE /\ blocks' = store_block(blocks, block)
            /\ broadcast' = Append(broadcast, [kind |-> "vote", body |-> self_vote(block)])
    /\ UNCHANGED <<state, rwlock, votes, pending_transactions>>

handle_block_vote(vote) ==
    /\ IF ~ verify_vote_signature(vote)
       THEN UNCHANGED <<votes, state, rwlock>>
       ELSE LET stored == store_vote(votes, vote)
                after  == check_block_finality(state, rwlock, stored, vote.block_hash)
            IN  /\ votes' = stored
                /\ state' = after.state
                /\ rwlock' = after.rwlock
    /\ UNCHANGED <<blocks, pending_transactions, broadcast>>

\* as handle_consensus_state, refusing a snapshot below the local height
handle_consensus_state_NoRollback(snapshot) ==
    /\ state' = IF snapshot.current_block >= state.current_block
                THEN snapshot ELSE state
    /\ UNCHANGED <<rwlock, blocks, votes, pending_transactions, broadcast>>

handle_consensus_state(snapshot) ==
    /\ state' = snapshot
    /\ UNCHANGED <<rwlock, blocks, votes, pending_transactions, broadcast>>

\* the response is built and dropped
handle_proof_request(request) ==
    /\ \A block \in get_block(blocks, request.block_number) :
            generate_proof(block).proof_type = "Groth16"
    /\ UNCHANGED <<state, rwlock, blocks, votes, pending_transactions, broadcast>>

\* as handle_proof_response, with a proof that verifies taken as finality
handle_proof_response_Finalizes(response) ==
    /\ state' = IF verify_proof(response.proof)
                THEN [state EXCEPT !.current_block = @ + 1] ELSE state
    /\ UNCHANGED <<rwlock, blocks, votes, pending_transactions, broadcast>>

\* the verdict is logged
handle_proof_response(response) ==
    /\ verify_proof(response.proof) \in BOOLEAN
    /\ UNCHANGED <<state, rwlock, blocks, votes, pending_transactions, broadcast>>

propose_new_block(t) ==
    LET block == proposed_block(state, blocks, pending_transactions, t)
    IN  /\ blocks' = store_block(blocks, block)
        /\ broadcast' = Append(broadcast, [kind |-> "block", body |-> block])

tick(t) ==
    /\ IF should_propose_block(state, blocks, t)
       THEN propose_new_block(t)
       ELSE UNCHANGED <<blocks, broadcast>>
    /\ state' = update_consensus_state(state, t)
    /\ UNCHANGED <<rwlock, votes, pending_transactions>>

----------------------------------------------------------------------------
(* consensus_loop: one branch of select! a step.  The parameters are the    *)
(* inputs the environment may deliver and what keeps the exploration        *)
(* finite: room for one more broadcast, the cap of the vote store.          *)

\* redelivered: the bus delivered the message it had delivered just before
Handled(op, msg) ==
    /\ last' = [op |-> op, msg |-> msg,
                redelivered |-> (last.op = op /\ last.msg = msg)]
    /\ returned' = returned

\* `?` at lines 76 and 80: the handler's Err is the loop's return value
Failed(op, msg, error) ==
    /\ last' = [op |-> op, msg |-> msg,
                redelivered |-> (last.op = op /\ last.msg = msg)]
    /\ returned' = {error}

RecvNewBlock(inputs, room) ==
    /\ LoopReady
    /\ room
    /\ \E block \in inputs :
            handle_new_block(block) /\ Handled("NewBlock", block)
    /\ UNCHANGED now

RecvBlockVote(inputs, cap) ==
    /\ LoopReady
    /\ \E vote \in inputs :
            /\ vote_key(vote) \in DOMAIN votes \/ Cardinality(DOMAIN votes) < cap
            /\ handle_block_vote(vote)
            /\ Handled("BlockVote", vote)
    /\ UNCHANGED now

RecvConsensusState(inputs) ==
    /\ LoopReady
    /\ \E snapshot \in inputs :
            handle_consensus_state(snapshot) /\ Handled("ConsensusState", snapshot)
    /\ UNCHANGED now

RecvProofRequest(inputs) ==
    /\ LoopReady
    /\ \E request \in inputs :
            handle_proof_request(request) /\ Handled("ZKProofRequest", request)
    /\ UNCHANGED now

RecvProofResponse(inputs) ==
    /\ LoopReady
    /\ \E response \in inputs :
            handle_proof_response(response) /\ Handled("ZKProofResponse", response)
    /\ UNCHANGED now

\* the one-second sleep elapsed first: the tick runs at a later instant
Tick(instants, room) ==
    /\ LoopReady
    /\ room
    /\ \E t \in instants :
            /\ t > now
            /\ now' = t
            /\ tick(t)
            /\ Handled("Tick", <<>>)

\* handle_block_vote when store_vote returns Err: `?` at line 151 returns
\* before check_block_finality
RecvBlockVoteGatewayError(inputs) ==
    /\ LoopReady
    /\ \E vote \in inputs :
            /\ verify_vote_signature(vote)
            /\ Failed("BlockVote", vote, "store_vote")
    /\ UNCHANGED <<state, rwlock, blocks, votes, pending_transactions, broadcast,
                   now>>

\* tick when generate_proof returns Err in propose_new_block: `?` at line 273
\* returns before store_block, `?` at line 204 before update_consensus_state
TickGatewayError(instants) ==
    /\ LoopReady
    /\ \E t \in instants :
            /\ t > now
            /\ now' = t
            /\ should_propose_block(state, blocks, t)
            /\ Failed("Tick", <<>>, "generate_proof")
    /\ UNCHANGED <<state, rwlock, blocks, votes, pending_transactions, broadcast>>

Init ==
    /\ state = [current_block |-> 0, validators |-> EmptyMap, total_stake |-> 0,
                epoch |-> 0]
    /\ rwlock = [readers |-> 0, writer_waiting |-> FALSE]
    /\ blocks = EmptyMap
    /\ votes = EmptyMap
    /\ pending_transactions = TestTransactions
    /\ broadcast = <<>>
    /\ now = 0
    /\ last = [op |-> "Init", msg |-> <<>>, redelivered |-> FALSE]
    /\ returned = {}

\* no block has been stored yet
NothingStored == blocks = EmptyMap

\* The whole loop, on few inputs: well-formed blocks, one voter, one snapshot.
Next ==
    \/ RecvNewBlock(NewBlockInputs(0), NothingStored)
    \/ RecvBlockVote(BlockVoteInputs({"n2"}, {"Approve"}), FewVotes)
    \/ RecvConsensusState(ConsensusStateInputs({0}, {SelfValidator(TRUE)}))
    \/ RecvProofRequest(ProofRequestInputs)
    \/ RecvProofResponse(ProofResponseInputs)
    \/ Tick({0, block_time}, NothingStored)

Spec == Init /\ [][Next]_vars

\* Block validation in depth: blocks with up to MaxDefects wrong fields, at
\* every height a snapshot may set.
NextBlocks ==
    \/ RecvNewBlock(NewBlockInputs(MaxDefects), Len(broadcast) < MaxBroadcast)
    \/ RecvConsensusState(ConsensusStateInputs(SyncHeights, {EmptyMap}))

SpecBlocks == Init /\ [][NextBlocks]_vars

\* Redelivery after a state sync: well-formed blocks, more of them.
NextResync ==
    \/ RecvNewBlock(NewBlockInputs(0), Len(broadcast) < MaxResync)
    \/ RecvConsensusState(ConsensusStateInputs(SyncHeights, {EmptyMap}))

SpecResync == Init /\ [][NextResync]_vars

\* Voting in depth: every voter, votes for and against, one well-formed block.
NextQuorum ==
    \/ RecvNewBlock(NewBlockInputs(0), NothingStored)
    \/ RecvBlockVote(BlockVoteInputs(NodeIds, {"Approve", "Reject"}), MaxVotes)
    \/ RecvConsensusState(ConsensusStateInputs(SyncHeights, {SelfValidator(TRUE)}))
    \/ Tick({0, block_time}, NothingStored)

SpecQuorum == Init /\ [][NextQuorum]_vars

\* The commitment layer in depth: blocks over many transaction lists, checked
\* at every height a snapshot may set.
NextMerkle ==
    \/ RecvNewBlock(MerkleInputs, Len(broadcast) < MaxBroadcast)
    \/ RecvConsensusState(ConsensusStateInputs(SyncHeights, {EmptyMap}))

SpecMerkle == Init /\ [][NextMerkle]_vars

\* The vote store in depth: every voter, every verdict, two hashes.
NextVotes ==
    \/ RecvBlockVote(StrayVoteInputs, MaxVotes)
    \/ RecvConsensusState(ConsensusStateInputs({0}, {SelfValidator(TRUE)}))

SpecVotes == Init /\ [][NextVotes]_vars

\* Proposing in depth: this node absent from the validator set, in it and
\* active, in it and inactive; ticks around the block time.
NextPropose ==
    \/ RecvConsensusState(ConsensusStateInputs({0},
            {EmptyMap, SelfValidator(TRUE), SelfValidator(FALSE)}))
    \/ Tick(ProposeInstants, Len(broadcast) < MaxBroadcast)

SpecPropose == Init /\ [][NextPropose]_vars

\* Gateway errors: a tick or a vote whose gateway call returns Err, among
\* ticks and votes whose calls return Ok.
NextGateway ==
    \/ RecvConsensusState(ConsensusStateInputs({0}, {EmptyMap, SelfValidator(TRUE)}))
    \/ RecvBlockVote(StrayVoteInputs, FewVotes)
    \/ RecvBlockVoteGatewayError(StrayVoteInputs)
    \/ Tick(ProposeInstants, NothingStored)
    \/ TickGatewayError(ProposeInstants)

SpecGateway == Init /\ [][NextGateway]_vars

\* this node is in the validator set and has proposed nothing yet
AwaitingFirstProposal == node_id \in DOMAIN state.validators /\ NothingStored

\* Progress: snapshots that make this node an active validator, Approve votes
\* of every voter, and the tick of a validator.  The loop never idles while a
\* branch of select! is ready: a message to handle, or the sleep elapsed.
NextLive ==
    \/ RecvConsensusState(ConsensusStateInputs({0}, {SelfValidator(TRUE)}))
    \/ RecvBlockVote(BlockVoteInputs(NodeIds, {"Approve"}), MaxVotes)
    \/ Tick(ProposeInstants, AwaitingFirstProposal)

SpecLive ==
    /\ Init
    /\ [][NextLive]_vars
    /\ WF_vars(NextLive)

\* Scoring in depth: snapshots of many scores, ticks around the five minutes.
NextScores ==
    \/ RecvConsensusState(ConsensusStateInputs({0}, ScoredValidators))
    \/ Tick(ScoreInstants, TRUE)

SpecScores == Init /\ [][NextScores]_vars

----------------------------------------------------------------------------
(* Claims *)

ApproveCount(vs, block_hash) ==
    Cardinality({v \in get_votes_for_block(vs, block_hash) : v.vote = "Approve"})

HasQuorum(vs, block_hash) == ApproveCount(vs, block_hash) >= min_validators

\* C1: at most one block is finalized per height: a BlockVote or NewBlock step
\* that moves current_block moves it up by exactly one, and the hash whose
\* quorum moved it is the hash of the block stored at the new height.
C1_OneBlockPerHeight ==
    [][(last'.op \in {"NewBlock", "BlockVote"}
            /\ state'.current_block # state.current_block)
        => /\ last'.op = "BlockVote"
           /\ state'.current_block = state.current_block + 1
           /\ \E b \in get_block(blocks', state'.current_block) :
                    hash(b) = last'.msg.block_hash]_vars

\* a hash that is not the hash of the block at the next height has collected a
\* quorum, its last vote has been handled, and the height has not moved
C1_Witness ==
    /\ last.op = "BlockVote"
    /\ HasQuorum(votes, last.msg.block_hash)
    /\ last.msg.block_hash = OtherHash
    /\ blocks # EmptyMap

\* C2: with min_validators = 3, two Approve votes for a hash leave current_block
\* unchanged, and handling the third completes with current_block one higher.
C2_QuorumBoundary ==
    [][(last'.op = "BlockVote" /\ last'.msg.vote = "Approve")
        => /\ ApproveCount(votes', last'.msg.block_hash) < min_validators
                => state'.current_block = state.current_block
           /\ (ApproveCount(votes, last'.msg.block_hash) = min_validators - 1
                    /\ ApproveCount(votes', last'.msg.block_hash) = min_validators)
                => (state'.current_block = state.current_block + 1 /\ LoopReady')]_vars

\* C3: current_block never decreases over a NewBlock, BlockVote or Tick step.
C3_HeightMonotonic ==
    [][last'.op \in {"NewBlock", "BlockVote", "Tick"}
        => state'.current_block >= state.current_block]_vars

\* votes and a block have been handled above height 0
C3_Witness ==
    /\ state.current_block > 0
    /\ last.op = "BlockVote"
    /\ HasQuorum(votes, last.msg.block_hash)

\* C4: from current_block = 0 and block #1 proposed by this node, stored with a
\* proof that verifies, handling the third distinct Approve vote for its hash
\* leaves current_block = 1 and block #1 the latest block.
C4_EndToEnd ==
    [][(/\ state.current_block = 0
        /\ DOMAIN blocks = {1}
        /\ blocks[1].header.validator = node_id
        /\ verify_proof(blocks[1].zk_proof)
        /\ last'.op = "BlockVote"
        /\ last'.msg.block_hash = hash(blocks[1])
        /\ ApproveCount(votes, hash(blocks[1])) = min_validators - 1
        /\ ApproveCount(votes', hash(blocks[1])) = min_validators)
        => /\ state'.current_block = 1
           /\ get_latest_block(blocks') = {blocks[1]}]_vars

\* C5: handling a BlockVote equal to the vote already stored under its key
\* leaves the vote store and current_block unchanged.
C5_DuplicateVote ==
    [][(/\ last'.op = "BlockVote"
        /\ vote_key(last'.msg) \in DOMAIN votes
        /\ votes[vote_key(last'.msg)] = last'.msg)
        => /\ votes' = votes
           /\ state'.current_block = state.current_block]_vars

\* the vote handled last had just been handled before
C5_Witness ==
    /\ last.op = "BlockVote"
    /\ last.redelivered
    /\ last.msg.vote = "Approve"
    /\ ApproveCount(votes, last.msg.block_hash) = min_validators - 1

\* the Approve votes this node has broadcast for a block hash
SelfVotesFor(log, block_hash) ==
    Cardinality({i \in 1..Len(log) :
                    log[i].kind = "vote" /\ log[i].body.block_hash = block_hash})

\* a delivered block that passes every check of handle_new_block but the named one
OnlyWrong(block, kind) ==
    /\ (kind = "height") = (block.header.block_number # state.current_block + 1)
    /\ (kind = "parent") = (block.header.parent_hash # expected_parent(blocks))
    /\ (kind = "root") =
            (block.header.merkle_root # calculate_merkle_root(block.transactions))
    /\ (kind = "proof") = ~ verify_proof(block.zk_proof)

\* C6: when the NewBlock just stored is delivered again, the store still holds
\* that block at its height and this node has cast at most one vote for it.
C6_NewBlockIdempotent ==
    [][(/\ last'.op = "NewBlock"
        /\ last'.redelivered
        /\ get_block(blocks, last'.msg.header.block_number) = {last'.msg})
        => /\ get_block(blocks', last'.msg.header.block_number) = {last'.msg}
           /\ SelfVotesFor(broadcast', hash(last'.msg)) <= 1]_vars

\* C7: a NewBlock whose block number is not current_block + 1 changes neither
\* the block store, the vote store nor the consensus state, and casts no vote.
C7_WrongHeightRejected ==
    [][(last'.op = "NewBlock"
            /\ last'.msg.header.block_number # state.current_block + 1)
        => UNCHANGED <<blocks, votes, state, broadcast>>]_vars

\* a block two heights up, right in every other field, has been handled
C7_Witness ==
    /\ last.op = "NewBlock"
    /\ last.msg.header.block_number = state.current_block + 2
    /\ OnlyWrong(last.msg, "height")

\* C8: a NewBlock is accepted only if its parent_hash is the hash of the latest
\* stored block, or the zero hash when no block is stored.
C8_ParentChecked ==
    [][(last'.op = "NewBlock" /\ broadcast' # broadcast)
        => last'.msg.header.parent_hash = expected_parent(blocks)]_vars

\* C9: a NewBlock whose merkle_root is not the root of its transactions changes
\* neither the stores nor the consensus state, and casts no vote.
C9_WrongRootRejected ==
    [][(last'.op = "NewBlock"
            /\ last'.msg.header.merkle_root
                    # calculate_merkle_root(last'.msg.transactions))
        => UNCHANGED <<blocks, votes, state, broadcast>>]_vars

\* a block with a foreign merkle_root, right in every other field, has been handled
C9_Witness ==
    /\ last.op = "NewBlock"
    /\ last.msg.transactions # <<>>
    /\ OnlyWrong(last.msg, "root")

\* C10: a NewBlock whose proof has empty proof_data, empty public_inputs or
\* proof_data shorter than 64 bytes changes nothing and the handler returns:
\* the loop is back at select!.
C10_BadProofRejected ==
    [][(/\ last'.op = "NewBlock"
        /\ \/ ByteLen(last'.msg.zk_proof.proof_data) = 0
           \/ ByteLen(last'.msg.zk_proof.public_inputs) = 0
           \/ ByteLen(last'.msg.zk_proof.proof_data) < 64)
        => /\ UNCHANGED <<state, rwlock, blocks, votes, pending_transactions,
                          broadcast>>
           /\ LoopReady']_vars

\* a block whose proof_data is too short, right in every other field, has been handled
C10_Witness ==
    /\ last.op = "NewBlock"
    /\ ByteLen(last.msg.zk_proof.proof_data) > 0
    /\ ByteLen(last.msg.zk_proof.proof_data) < MinProofSize
    /\ ByteLen(last.msg.zk_proof.public_inputs) > 0
    /\ OnlyWrong(last.msg, "proof")

\* the leaf of a transaction: the digest of its serialization
Leaf(tx) == Sha256(<<tx>>)

\* C11: the root of a list of exactly one transaction t is the combination
\* H(hash(t) || hash(t)), not hash(t) alone.
C11_SingleLeafSelfPaired ==
    (last.op = "NewBlock" /\ Len(last.msg.transactions) = 1)
        => calculate_merkle_root(last.msg.transactions)
                = Sha256(<<Leaf(last.msg.transactions[1]),
                           Leaf(last.msg.transactions[1])>>)

\* the blocks the engine has accepted or built
KnownBlocks ==
    {blocks[h] : h \in DOMAIN blocks}
        \cup {broadcast[i].body : i \in {j \in 1..Len(broadcast) :
                                            broadcast[j].kind = "block"}}

\* C12: the root is a function of the transaction list alone: recomputed in
\* any later engine state it is the root under which a block was accepted or
\* built, and the root of the empty list is the zero hash.
C12_RootDeterministic ==
    /\ \A b \in KnownBlocks :
            b.header.merkle_root = calculate_merkle_root(b.transactions)
    /\ calculate_merkle_root(<<>>) = ZeroHash
    /\ \A b \in KnownBlocks :
            Len(b.transactions) = 0 => b.header.merkle_root = ZeroHash

\* two blocks accepted at different heights of the engine are stored, one of
\* them empty and one not, and the height has moved since
C12_Witness ==
    /\ Cardinality(DOMAIN blocks) = 2
    /\ \E b \in KnownBlocks : Len(b.transactions) = 0
    /\ \E b \in KnownBlocks :
            Len(b.transactions) > 1 /\ b.header.block_number # state.current_block + 1

\* the reference aggregation: node i of the level above is the digest of nodes
\* 2i-1 and 2i, the last node standing in for a missing 2i
ReferenceLevel(nodes) ==
    [i \in 1..((Len(nodes) + 1) \div 2) |->
        Sha256(<<nodes[2 * i - 1],
                 nodes[IF 2 * i <= Len(nodes) THEN 2 * i ELSE 2 * i - 1]>>)]

RECURSIVE ReferenceRoot(_)
ReferenceRoot(nodes) ==
    IF Len(nodes) = 1 THEN nodes[1] ELSE ReferenceRoot(ReferenceLevel(nodes))

\* C13: for two transactions or more the root is the reference bottom-up
\* pairwise aggregation with the last node of an odd level paired with itself;
\* for three transactions it is H(H(h1||h2) || H(h3||h3)).
C13_OddLevelsDuplicateLast ==
    (last.op = "NewBlock" /\ Len(last.msg.transactions) > 1)
        => LET txs == last.msg.transactions
               h   == [i \in 1..Len(txs) |-> Leaf(txs[i])]
           IN  /\ calculate_merkle_root(txs) = ReferenceRoot(h)
               /\ Len(txs) = 3
                    => calculate_merkle_root(txs)
                        = Sha256(<<Sha256(<<h[1], h[2]>>), Sha256(<<h[3], h[3]>>)>>)

\* a block of five transactions, odd at two levels of its tree, has been accepted
C13_Witness ==
    /\ last.op = "NewBlock"
    /\ Len(last.msg.transactions) = NumTestTxs
    /\ last.msg \in KnownBlocks

\* C14: right after store_block(b), get_block(b.block_number) and
\* get_block_by_hash(hash(b)) both return b, and get_latest_block returns the
\* stored block with the greatest block number.
C14_StorageRoundTrip ==
    [][(last'.op = "NewBlock" /\ broadcast' # broadcast)
        => LET b == last'.msg
           IN  /\ get_block(blocks', b.header.block_number) = {b}
               /\ get_block_by_hash(blocks', hash(b)) = {b}
               /\ \E top \in get_latest_block(blocks') :
                    /\ blocks'[top.header.block_number] = top
                    /\ \A h \in DOMAIN blocks' : h <= top.header.block_number]_vars

\* a block has just been stored below the latest block
C14_Witness ==
    /\ last.op = "NewBlock"
    /\ get_block(blocks, last.msg.header.block_number) = {last.msg}
    /\ \E top \in get_latest_block(blocks) :
            top.header.block_number > last.msg.header.block_number

\* the votes the store holds of one validator for one hash
VotesOf(vs, validator, block_hash) ==
    {vs[k] : k \in {j \in DOMAIN vs : /\ vs[j].validator = validator
                                       /\ vs[j].block_hash = block_hash}}

\* the entries of the store that are not of that validator for that hash
VoteEntriesBut(vs, validator, block_hash) ==
    {<<k, vs[k]>> : k \in {j \in DOMAIN vs : \/ vs[j].validator # validator
                                              \/ vs[j].block_hash # block_hash}}

\* C15: the store holds at most one vote per (validator, block_hash), equal to
\* the last one handled for it; the approve count of a hash is the number of
\* validators whose latest vote for it is Approve.
C15_LastWriteWins ==
    /\ [](\A k \in DOMAIN votes :
            /\ Cardinality({j \in DOMAIN votes :
                                /\ votes[j].validator = votes[k].validator
                                /\ votes[j].block_hash = votes[k].block_hash}) = 1
            /\ ApproveCount(votes, votes[k].block_hash)
                = Cardinality({n \in NodeIds :
                    \E w \in VotesOf(votes, n, votes[k].block_hash) :
                        w.vote = "Approve"}))
    /\ [][last'.op = "BlockVote"
            => LET v == last'.msg
               IN  /\ VotesOf(votes', v.validator, v.block_hash) = {v}
                   /\ VoteEntriesBut(votes', v.validator, v.block_hash)
                        = VoteEntriesBut(votes, v.validator, v.block_hash)
                   /\ ApproveCount(votes', v.block_hash)
                        = ApproveCount(votes, v.block_hash)
                            - (IF \E w \in VotesOf(votes, v.validator, v.block_hash) :
                                    w.vote = "Approve" THEN 1 ELSE 0)
                            + (IF v.vote = "Approve" THEN 1 ELSE 0)]_vars

\* an Abstain has replaced an equal Abstain, beside two Approve votes of other
\* validators for the same hash
C15_Witness ==
    /\ last.op = "BlockVote"
    /\ last.redelivered
    /\ last.msg.vote = "Abstain"
    /\ ApproveCount(votes, last.msg.block_hash) = min_validators - 1
    /\ Cardinality(DOMAIN votes) = MaxVotes

\* C16: handling ConsensusState(s) leaves the local consensus state equal to s
\* in every field, whatever it was before.
C16_SnapshotReplacesState ==
    [][last'.op = "ConsensusState"
        => /\ state'.current_block = last'.msg.current_block
           /\ state'.validators = last'.msg.validators
           /\ state'.total_stake = last'.msg.total_stake
           /\ state'.epoch = last'.msg.epoch]_vars

\* a snapshot at height 0 has replaced a state at height 1, under which the
\* stored block #2 had been accepted
C16_Witness ==
    /\ last.op = "ConsensusState"
    /\ state.current_block = 0
    /\ 2 \in DOMAIN blocks
    /\ state = last.msg

\* the tick just handled proposed a block
Proposed == last'.op = "Tick" /\ Len(broadcast') = Len(broadcast) + 1

\* C17: a tick proposes only if this node is in the validator set and its
\* entry is active.
C17_OnlyActiveProposes ==
    [][Proposed
        => /\ node_id \in DOMAIN state.validators
           /\ state.validators[node_id].is_active]_vars

\* C18: a tick less than block_time after the timestamp of the latest stored
\* block proposes nothing; a tick of a node in the validator set and active
\* proposes when no block is stored or block_time or more has passed.
C18_ProposalTiming ==
    [][last'.op = "Tick"
        => /\ (\E b \in get_latest_block(blocks) :
                    now' - b.header.timestamp < 12)
                => (blocks' = blocks /\ broadcast' = broadcast)
           /\ (/\ node_id \in DOMAIN state.validators
               /\ state.validators[node_id].is_active
               /\ \A b \in get_latest_block(blocks) :
                    now' - b.header.timestamp >= 12)
                => /\ Proposed
                   /\ broadcast'[Len(broadcast')].kind = "block"
                   /\ broadcast'[Len(broadcast')].body.header.timestamp = now'
                   /\ get_latest_block(blocks')
                        = {broadcast'[Len(broadcast')].body}]_vars

\* the tick just handled proposed a block exactly block_time after the block
\* proposed before it
C18_Witness ==
    /\ last.op = "Tick"
    /\ Len(broadcast) = 2
    /\ broadcast[2].body.header.timestamp = now
    /\ now - broadcast[1].body.header.timestamp = block_time
    /\ node_id \in DOMAIN state.validators
    /\ state.validators[node_id].is_active

\* C19: a gateway call that fails inside a handler or a tick does not end the
\* loop: consensus_loop has not returned and is ready for the next message or
\* tick.
C19_GatewayFailureSurvived ==
    [][returned' = {} /\ (last'.op \in {"Tick", "BlockVote"} => LoopReady')]_vars

\* C20: every handler returns: between two steps of the loop no guard on the
\* consensus state is held and no write is awaited, also after the BlockVote
\* that brings a hash to quorum.
C20_HandlersTerminate ==
    /\ rwlock.readers = 0
    /\ ~ rwlock.writer_waiting
    /\ (last.op = "BlockVote" /\ HasQuorum(votes, last.msg.block_hash))
            => LoopReady

\* C21: once this node is in the validator set and active, a tick is handled
\* in the end and a block by this node is proposed, whatever messages arrive.
C21_EventuallyProposes ==
    (node_id \in DOMAIN state.validators /\ state.validators[node_id].is_active)
        ~> (\E i \in 1..Len(broadcast) :
                /\ broadcast[i].kind = "block"
                /\ broadcast[i].body.header.validator = node_id)

\* C22: a tick lowers by 0.05, not below 0, the score of every validator whose
\* last_block_time is five minutes or more in the past, and raises by 0.10,
\* not above 1.0, the score of every other validator.
C22_ScoreUpdateRule ==
    [][last'.op = "Tick"
        => /\ DOMAIN state'.validators = DOMAIN state.validators
           /\ \A n \in DOMAIN state.validators :
                LET before == state.validators[n].performance_score
                    after  == state'.validators[n].performance_score
                IN  IF now' - state.validators[n].last_block_time >= 300
                    THEN after = (IF before - 5 < 0 THEN 0 ELSE before - 5)
                    ELSE after = (IF before + 10 > 100 THEN 100 ELSE before + 10)]_vars

\* a tick five minutes or more after last_block_time has taken a score from
\* 0.50 to 0.45
C22_Witness ==
    /\ last.op = "Tick"
    /\ now >= ScoreWindow
    /\ \E n \in DOMAIN state.validators :
            state.validators[n].performance_score = 45

\* C23: every validator's performance_score lies in [0, 1].
C23_ScoreInUnitInterval ==
    \A n \in DOMAIN state.validators :
        /\ state.validators[n].performance_score >= 0
        /\ state.validators[n].performance_score <= 100

\* C24: every block this node proposes has block_number current_block + 1,
\* and when its parent_hash is not the zero hash, the stored block with that
\* hash has the block number just below.
C24_ProposalExtendsParent ==
    [][Proposed
        => LET b == broadcast'[Len(broadcast')].body
           IN  /\ b.header.block_number = state.current_block + 1
               /\ b.header.parent_hash # ZeroHash
                    => \E p \in get_block_by_hash(blocks, b.header.parent_hash) :
                            p.header.block_number = b.header.block_number - 1]_vars

\* C25: votes of nodes outside the validator set do not count: whenever the
\* handling of a BlockVote finds its hash at quorum (and goes on to raise
\* current_block), min_validators of the Approve votes are votes of validators.
C25_OnlyValidatorVotesCount ==
    [][(/\ last'.op = "BlockVote"
        /\ \/ state'.current_block # state.current_block
           \/ rwlock'.writer_waiting)
        => Cardinality({n \in DOMAIN state.validators :
                \E w \in VotesOf(votes', n, last'.msg.block_hash) :
                    w.vote = "Approve"}) >= min_validators]_vars

\* C26: every tick runs the score update exactly once, whether or not it
\* proposed a block and whether or not its proposal went through.
C26_TickAlwaysUpdatesScores ==
    [][last'.op = "Tick"
        => state' = update_consensus_state(state, now')]_vars

\* C27: handling a ZKProofRequest or a ZKProofResponse changes neither the
\* consensus state, the block store, the vote store nor the pending pool.
C27_ProofMessagesChangeNothing ==
    [][last'.op \in {"ZKProofRequest", "ZKProofResponse"}
        => UNCHANGED <<state, blocks, votes, pending_transactions>>]_vars

\* a response whose proof verifies has been handled while the block it
\* belongs to is stored
C27_Witness ==
    /\ last.op = "ZKProofResponse"
    /\ ByteLen(last.msg.proof.proof_data) >= MinProofSize
    /\ \E b \in get_latest_block(blocks) : b.zk_proof = last.msg.proof

\* C28: proposing changes only the block store: current_block, the votes
\* and the pending pool stay, and the proposed block is the block stored at
\* current_block + 1, in place of any block stored there before.
C28_ProposalFrame ==
    [][Proposed
        => LET b == broadcast'[Len(broadcast')].body
           IN  /\ state'.current_block = state.current_block
               /\ votes' = votes
               /\ pending_transactions' = pending_transactions
               /\ b.transactions = pending_transactions
               /\ DOMAIN blocks' = DOMAIN blocks \cup {state.current_block + 1}
               /\ \A h \in DOMAIN blocks' :
                    blocks'[h] = IF h = state.current_block + 1 THEN b
                                 ELSE blocks[h]]_vars

\* a second proposal has replaced the first at the same block number
C28_Witness ==
    /\ last.op = "Tick"
    /\ Len(broadcast) = 2
    /\ broadcast[1].kind = "block"
    /\ broadcast[1].body.header.block_number = broadcast[2].body.header.block_number
    /\ get_block(blocks, broadcast[2].body.header.block_number) = {broadcast[2].body}
    /\ broadcast[1].body # broadcast[2].body

\* C29: the proof generated for a block verifies, its proof_data is 68 bytes
\* and its public_inputs 48 bytes; generated again in any later state, the
\* proof of a block is the proof the block was accepted or built with.
C29_GenerateVerifyRoundTrip ==
    /\ last.op = "NewBlock"
            => /\ verify_proof(generate_proof(last.msg))
               /\ ByteLen(generate_proof(last.msg).proof_data) = 68
               /\ ByteLen(generate_proof(last.msg).public_inputs) = 48
    /\ \A b \in KnownBlocks : generate_proof(b) = b.zk_proof

\* a block of two transactions has been accepted with its generated proof,
\* after an earlier block
C29_Witness ==
    /\ last.op = "NewBlock"
    /\ last.msg \in KnownBlocks
    /\ Len(last.msg.transactions) = 2
    /\ Cardinality(DOMAIN blocks) = 2

====
